---------------------------- MODULE Spec2Model ----------------------------
(***************************************************************************)
(* A model of packman.py, the runtime package manager of kivy-launcher:    *)
(* requirement parsing, version comparison, the ar scan of a Termux .deb,  *)
(* the root-stripping extraction of a PyPI sdist, and install().           *)
(*                                                                         *)
(* Python strings and byte strings are sequences of one-character strings. *)
(***************************************************************************)
EXTENDS Integers, Sequences, FiniteSets, TLC

VARIABLES
    parseIn,      \* the argument of _parse_requirement
    parseOut,     \* what the call produced
    verIn,        \* the arguments of _version_satisfies
    verOut,       \* what the call produced
    termuxRepo,   \* the binary repository: per package, the .deb it serves
    pypiIndex,    \* the source index: per package, its page of links
    symlinksWork, \* whether the file system lets symlink_to succeed
    copyWorks,    \* whether shutil.copytree and shutil.copy2 succeed
    cache,        \* <files>/cache/<pkg>: the cache entries
    files,        \* the other files under <files>/cache
    site,         \* <files>/projects/<project>/site-packages, per project
    sysModules,   \* sys.modules: the modules the process has imported
    call,         \* the install() call in progress
    prev,         \* the install() call that ended before it
    fetchOut,     \* what a direct call of an extractor produced
    sysPath,      \* sys.path: the module search path of the process
    ensured,      \* how many times ensure_project_site_packages was called
    query,        \* what a direct call of is_installed produced
    race          \* two install() calls running at the same time

parseVars == <<parseIn, parseOut>>
verVars == <<verIn, verOut>>
envVars == <<termuxRepo, pypiIndex, symlinksWork, copyWorks>>
diskVars == <<cache, files, site>>
procVars == <<sysModules, call, prev>>
pathVars == <<sysPath, ensured, query>>
raceVars == <<race>>
vars == <<parseVars, verVars, envVars, diskVars, procVars, fetchOut, pathVars,
          raceVars>>

(***************************************************************************)
(* Strings                                                                 *)
(***************************************************************************)
SeqsUpTo(S, n) == UNION {[1..k -> S] : k \in 0..n}

Max(a, b) == IF a >= b THEN a ELSE b
Min(a, b) == IF a <= b THEN a ELSE b

UpperSeq == <<"A","B","C","D","E","F","G","H","I","J","K","L","M",
              "N","O","P","Q","R","S","T","U","V","W","X","Y","Z">>
LowerSeq == <<"a","b","c","d","e","f","g","h","i","j","k","l","m",
              "n","o","p","q","r","s","t","u","v","w","x","y","z">>
DigitSeq == <<"0","1","2","3","4","5","6","7","8","9">>

Range(s) == {s[i] : i \in DOMAIN s}
Digits == Range(DigitSeq)
Letters == Range(UpperSeq) \cup Range(LowerSeq)
Whitespace == {" "}

\* str.lower() on one character
LowerChar(c) ==
    IF \E i \in DOMAIN UpperSeq : UpperSeq[i] = c
    THEN LowerSeq[CHOOSE i \in DOMAIN UpperSeq : UpperSeq[i] = c]
    ELSE c

\* s[n:] of Python
Drop(s, n) == SubSeq(s, n + 1, Len(s))

\* str.startswith
StartsWith(s, p) == Len(p) <= Len(s) /\ SubSeq(s, 1, Len(p)) = p

\* p in s (substring test)
Contains(s, p) ==
    \E i \in 0..(Len(s) - Len(p)) : SubSeq(s, i + 1, i + Len(p)) = p

\* str.strip()
strip(s) ==
    LET keep == {i \in DOMAIN s : s[i] \notin Whitespace}
    IN IF keep = {} THEN <<>>
       ELSE LET lo == CHOOSE i \in keep : \A j \in keep : i <= j
                hi == CHOOSE i \in keep : \A j \in keep : i >= j
            IN SubSeq(s, lo, hi)

\* the length of the longest prefix of s made of characters of S
PrefixLen(s, S) ==
    LET bad == {i \in DOMAIN s : s[i] \notin S}
    IN IF bad = {} THEN Len(s)
       ELSE (CHOOSE i \in bad : \A j \in bad : i <= j) - 1

(***************************************************************************)
(* _parse_requirement                                                      *)
(***************************************************************************)
\* [a-zA-Z0-9_-]
NameChars == Letters \cup Digits \cup {"_", "-"}

\* .lower() alone, the replace forgotten
CanonicalLowerOnly(name) == [i \in DOMAIN name |-> LowerChar(name[i])]

\* .lower().replace('_', '-')
Canonical(name) ==
    [i \in DOMAIN name |->
        IF LowerChar(name[i]) = "_" THEN "-" ELSE LowerChar(name[i])]

\* the length matched by ^([<>=!]=?|~=), 0 when there is no match
OpMatchLen(s) ==
    IF Len(s) >= 1 /\ s[1] \in {"<", ">", "=", "!"}
    THEN (IF Len(s) >= 2 /\ s[2] = "=" THEN 2 ELSE 1)
    ELSE IF Len(s) >= 2 /\ s[1] = "~" /\ s[2] = "=" THEN 2
    ELSE 0

ParseError(why) ==
    [ok |-> FALSE, name |-> <<>>, op |-> <<>>, ver |-> <<>>, err |-> why]
ParseOk(n, o, v) ==
    [ok |-> TRUE, name |-> n, op |-> o, ver |-> v, err |-> ""]

_parse_requirement(req0) ==
    LET req == strip(req0)
        n == PrefixLen(req, NameChars)
    IN IF n = 0 THEN ParseError("Invalid package name in requirement")
       ELSE
       LET package_name == Canonical(SubSeq(req, 1, n))
           remaining == strip(Drop(req, Len(package_name)))
       IN IF remaining = <<>> THEN ParseOk(package_name, <<>>, <<>>)
          ELSE
          LET k == OpMatchLen(remaining)
              operator == SubSeq(remaining, 1, k)
              version == strip(Drop(remaining, k))
          IN IF k > 0
             THEN IF version = <<>>
                  THEN ParseError("Version missing in requirement")
                  ELSE ParseOk(package_name, operator, version)
             ELSE ParseError("Invalid requirement format")

(***************************************************************************)
(* _version_satisfies                                                      *)
(***************************************************************************)
\* re.sub(r'[^0-9.]+.*', '', v): every character from the first one that is
\* neither a digit nor '.' is removed ('.' of the pattern does not match a
\* newline, but the search then resumes at the newline and removes on).
CutSuffix(v) == SubSeq(v, 1, PrefixLen(v, Digits \cup {"."}))

\* str.split('.')
RECURSIVE SplitDots(_)
SplitDots(s) ==
    LET dots == {i \in DOMAIN s : s[i] = "."}
    IN IF dots = {} THEN <<s>>
       ELSE LET d == CHOOSE i \in dots : \A j \in dots : i <= j
            IN <<SubSeq(s, 1, d - 1)>> \o SplitDots(Drop(s, d))

DigitVal(c) == (CHOOSE i \in DOMAIN DigitSeq : DigitSeq[i] = c) - 1

\* int(p) of a string of decimal digits
RECURSIVE IntOf(_)
IntOf(p) ==
    IF p = <<>> THEN 0
    ELSE 10 * IntOf(SubSeq(p, 1, Len(p) - 1)) + DigitVal(p[Len(p)])

\* str.isdigit(): non-empty, all digits
IsDigit(p) == p /= <<>> /\ \A i \in DOMAIN p : p[i] \in Digits

normalize_version(v) ==
    LET parts == SplitDots(CutSuffix(v))
    IN [i \in DOMAIN parts |-> IF IsDigit(parts[i]) THEN IntOf(parts[i]) ELSE 0]

\* no padding at all
NoExtend(parts, max_len) == parts

\* parts.extend([0] * (max_len - len(parts)))
Extend(parts, max_len) ==
    parts \o [i \in 1..(max_len - Len(parts)) |-> 0]

\* Python's comparison of two lists of integers
RECURSIVE ListLess(_, _)
ListLess(a, b) ==
    IF a = <<>> THEN b /= <<>>
    ELSE IF b = <<>> THEN FALSE
    ELSE IF a[1] /= b[1] THEN a[1] < b[1]
    ELSE ListLess(Tail(a), Tail(b))

\* the "~=" branch, on the padded lists
Compatible(inst_parts, req_parts) ==
    IF Len(req_parts) >= 2
    THEN LET base == SubSeq(req_parts, 1, Len(req_parts) - 1)
             inst_base == SubSeq(inst_parts, 1, Min(Len(base), Len(inst_parts)))
         IN inst_base = base /\ ~ListLess(inst_parts, req_parts)
    ELSE ~ListLess(inst_parts, req_parts)

_version_satisfies(installed, operator, required) ==
    IF operator = <<>> THEN TRUE
    ELSE
    LET inst0 == normalize_version(installed)
        req0 == normalize_version(required)
        max_len == Max(Len(inst0), Len(req0))
        inst_parts == Extend(inst0, max_len)
        req_parts == Extend(req0, max_len)
    IN CASE operator = <<"=", "=">> -> inst_parts = req_parts
         [] operator = <<">", "=">> -> ~ListLess(inst_parts, req_parts)
         [] operator = <<"<", "=">> -> ~ListLess(req_parts, inst_parts)
         [] operator = <<">">> -> ListLess(req_parts, inst_parts)
         [] operator = <<"<">> -> ListLess(inst_parts, req_parts)
         [] operator = <<"!", "=">> -> inst_parts /= req_parts
         [] operator = <<"~", "=">> ->
                Compatible(inst_parts, req_parts)
         [] OTHER -> FALSE

(***************************************************************************)
(* Directory trees.  A tree is a function from paths (sequences of names,  *)
(* relative to the tree's root) to nodes; the root itself is not in it.    *)
(***************************************************************************)
DirNode == [dir |-> TRUE, data |-> <<>>]
FileNode(data) == [dir |-> FALSE, data |-> data]
EmptyTree == <<>>

Exists(fs, p) == p = <<>> \/ p \in DOMAIN fs
IsDirAt(fs, p) == p = <<>> \/ (p \in DOMAIN fs /\ fs[p].dir)
IsFileAt(fs, p) == p \in DOMAIN fs /\ ~fs[p].dir

\* p and the paths above it, the root left out
Prefixes(p) == {SubSeq(p, 1, k) : k \in 1..Len(p)}
Parent(p) == SubSeq(p, 1, Len(p) - 1)
Basename(p) == p[Len(p)]

FsOk(fs) == [ok |-> TRUE, fs |-> fs]
FsErr(fs) == [ok |-> FALSE, fs |-> fs]

\* Path.mkdir(parents=True, exist_ok=True); os.makedirs(exist_ok=True)
MkdirP(fs, p) ==
    IF \E q \in Prefixes(p) : IsFileAt(fs, q) THEN FsErr(fs)
    ELSE FsOk([q \in DOMAIN fs \cup Prefixes(p) |->
                  IF q \in DOMAIN fs THEN fs[q] ELSE DirNode])

\* open(p, 'wb').write(data): the parent must be a directory, p no directory
WriteFile(fs, p, data) ==
    IF ~IsDirAt(fs, Parent(p)) \/ IsDirAt(fs, p) THEN FsErr(fs)
    ELSE FsOk([q \in DOMAIN fs \cup {p} |-> IF q = p THEN FileNode(data) ELSE fs[q]])

\* os.rename of a file
Rename(fs, src, dst) ==
    [q \in (DOMAIN fs \ {src}) \cup {dst} |-> IF q = dst THEN fs[src] ELSE fs[q]]

\* shutil.move(src, dst) of a file: into dst when dst is a directory (an
\* error when the name is taken there), else a rename over dst
Move(fs, src, dst) ==
    IF IsDirAt(fs, dst)
    THEN IF Exists(fs, dst \o <<Basename(src)>>) THEN FsErr(fs)
         ELSE FsOk(Rename(fs, src, dst \o <<Basename(src)>>))
    ELSE FsOk(Rename(fs, src, dst))

\* the names directly under the root: Path.iterdir()
TopLevel(fs) == {p[1] : p \in DOMAIN fs}

\* the subtree under path p, re-rooted at p
Subtree(fs, p) ==
    LET under == {q \in DOMAIN fs : Len(q) > Len(p) /\ SubSeq(q, 1, Len(p)) = p}
    IN [r \in {Drop(q, Len(p)) : q \in under} |-> fs[p \o r]]

(***************************************************************************)
(* _install_from_pypi: the extraction of the downloaded archive            *)
(***************************************************************************)
\* TarFile.extract(member, pkg_cache) of a regular file: the directories
\* above it are made, the file is written at pkg_cache/member.name
TarExtract(fs, m) ==
    LET up == MkdirP(fs, Parent(m.name))
    IN IF ~up.ok THEN up ELSE WriteFile(up.fs, m.name, m.data)

\* the body of the loop over a tar archive's members (lines 429-440)
TarMemberStep(fs, root_dir, m) ==
    IF m.name[1] = root_dir /\ Len(m.name) > 1
    THEN LET relative_path == Tail(m.name)
             mk == MkdirP(fs, Parent(relative_path))
         IN IF ~mk.ok THEN mk
            ELSE IF m.isfile
            THEN LET ex == TarExtract(mk.fs, m)
                 IN IF ~ex.ok THEN ex
                    ELSE IF Exists(ex.fs, m.name)
                    THEN Move(ex.fs, m.name, relative_path)
                    ELSE ex
            ELSE mk
    ELSE FsOk(fs)

\* the body of the loop over a zip archive's names (lines 450-456); a
\* directory entry is a name that ends in '/'
ZipMemberStep(fs, root_dir, m) ==
    IF m.name[1] = root_dir /\ Len(m.name) > 1
    THEN LET relative_path == Tail(m.name)
             mk == MkdirP(fs, Parent(relative_path))
         IN IF ~mk.ok THEN mk
            ELSE IF m.isfile THEN WriteFile(mk.fs, relative_path, m.data)
            ELSE mk
    ELSE FsOk(fs)

RECURSIVE ExtractMembers(_, _, _, _)
ExtractMembers(fs, root_dir, members, kind) ==
    IF members = <<>> THEN FsOk(fs)
    ELSE LET step == IF kind = "tar" THEN TarMemberStep(fs, root_dir, Head(members))
                     ELSE ZipMemberStep(fs, root_dir, Head(members))
         IN IF ~step.ok THEN step
            ELSE ExtractMembers(step.fs, root_dir, Tail(members), kind)

\* lines 420-456: an empty archive is an error; the root directory's name is
\* the first member's first path segment
ExtractArchive(fs, archive) ==
    IF archive.members = <<>> THEN FsErr(fs)
    ELSE ExtractMembers(fs, archive.members[1].name[1], archive.members,
                        archive.kind)

(***************************************************************************)
(* The cache directory: cache[pkg] is the cache entry <cache>/<pkg>, files *)
(* holds the other files of <cache> (downloads and scratch), keyed by      *)
(* <<kind, pkg>>.                                                          *)
(***************************************************************************)
NoEntry == [present |-> FALSE, tree |-> EmptyTree]
Entry(tree) == [present |-> TRUE, tree |-> tree]

\* the files and directories _install_from_termux and _install_from_pypi
\* keep beside the cache entries
DebFile(pkg) == <<"deb", pkg>>                \* <pkg>.deb
DataTarFile(pkg) == <<"data_tar", pkg>>       \* <pkg>_data.tar.xz
TempExtract(pkg) == <<"tmp", pkg>>            \* .tmp_<pkg>
SourceFile(pkg, suffix) == <<suffix, pkg>>    \* <pkg>_source<suffix>

PutFile(fls, key, data) ==
    [k \in DOMAIN fls \cup {key} |-> IF k = key THEN data ELSE fls[k]]
RemoveFile(fls, key) == [k \in DOMAIN fls \ {key} |-> fls[k]]

\* what a fetch returns: its boolean, the cache directory it leaves, the
\* number of network requests it made, the bytes it wrote to data_tar
FetchResult(ok, cch, fls, net, written) ==
    [ok |-> ok, cache |-> cch, files |-> fls, net |-> net,
     written |-> written]
NotWritten == [present |-> FALSE, data |-> <<>>]
Written(data) == [present |-> TRUE, data |-> data]

(***************************************************************************)
(* _install_from_termux                                                    *)
(***************************************************************************)
AR_MAGIC == <<"!", "<", "a", "r", "c", "h", ">", "\n">>
DATA_TAR == <<"d", "a", "t", "a", ".", "t", "a", "r">>
PYTHON_DIR == <<"p", "y", "t", "h", "o", "n", "3", ".", "1", "1">>
PYTHON_PREFIX == <<"p", "y", "t", "h", "o", "n">>
SITE_PACKAGES == <<"s", "i", "t", "e", "-", "p", "a", "c", "k", "a", "g", "e", "s">>

\* bytes.rstrip(b' \x00')
RStripName(b) ==
    LET keep == {i \in DOMAIN b : b[i] \notin {" ", "\\x00"}}
    IN IF keep = {} THEN <<>>
       ELSE SubSeq(b, 1, CHOOSE i \in keep : \A j \in keep : i >= j)

\* f.read(n) at cursor pos: the bytes read, fewer at the end of the file
ReadAt(bytes, pos, n) == SubSeq(bytes, pos + 1, Min(pos + n, Len(bytes)))

ScanNotFound == [ok |-> TRUE, found |-> FALSE, data |-> <<>>]
ScanError == [ok |-> FALSE, found |-> FALSE, data |-> <<>>]

\* the cursor after the content of a member that is skipped, the pad byte
\* forgotten
SkipNoPad(bytes, pos, size) == Min(pos + size, Len(bytes))

\* f.read(size); if size % 2 == 1: f.read(1)
Skip(bytes, pos, size) ==
    LET after == Min(pos + size, Len(bytes))
    IN IF size % 2 = 1 THEN Min(after + 1, Len(bytes)) ELSE after

\* the while loop of lines 298-317, the cursor at pos
RECURSIVE ScanMembers(_, _)
ScanMembers(bytes, pos) ==
    LET header == ReadAt(bytes, pos, 60)
    IN IF Len(header) < 60 THEN ScanNotFound
       ELSE LET fname == RStripName(SubSeq(header, 1, 16))
                field == strip(SubSeq(header, 49, 58))
            IN IF ~IsDigit(field) THEN ScanError
               ELSE LET size == IntOf(field)
                    IN IF Contains(fname, DATA_TAR)
                       THEN [ok |-> TRUE, found |-> TRUE,
                             data |-> ReadAt(bytes, pos + 60, size)]
                       ELSE ScanMembers(bytes, Skip(bytes, pos + 60, size))

\* lines 293-317: the magic, then the scan
ScanDeb(bytes) ==
    IF ReadAt(bytes, 0, 8) /= AR_MAGIC THEN ScanError
    ELSE ScanMembers(bytes, 8)

\* The names used in the file trees
INIT_PY == <<"_", "_", "i", "n", "i", "t", "_", "_", ".", "p", "y">>
SETUP_PY == <<"s", "e", "t", "u", "p", ".", "p", "y">>
P == <<"p">>
Q_R == <<"q", "_", "r">>
QR == <<"q", "-", "r">>
K == <<"k">>
PYTHON_OTHER == <<"p", "y", "t", "h", "o", "n", "3", ".", "1", "2">>
V1 == <<"1", ".", "0">>
V2 == <<"2", ".", "0">>

\* a tree holding one package directory <module>/__init__.py under dir, the
\* file declaring __version__ = version
PackageTree(dir, module, version) ==
    LET init == dir \o <<module, INIT_PY>>
    IN [q \in Prefixes(init) |-> IF q = init THEN FileNode(version) ELSE DirNode]

\* The payloads a data.tar member can hold, by their (compressed) bytes
PAYLOAD_P1 == <<"T", "1">>
PAYLOAD_P1_OTHER == <<"T", "2", "x">>
PAYLOAD_NO_SITE == <<"T">>

\* tarfile.open(data_tar) and extractall(temp_extract) (lines 324-325): the
\* tree the bytes unpack to, relative to data/data/com.termux/files/usr/lib;
\* bytes that are no tar archive (an empty file too) make tarfile raise
TarOpen(bytes) ==
    CASE bytes = PAYLOAD_P1 ->
            [ok |-> TRUE, tree |-> PackageTree(<<PYTHON_DIR, SITE_PACKAGES>>, P, V1)]
      [] bytes = PAYLOAD_P1_OTHER ->
            [ok |-> TRUE, tree |-> PackageTree(<<PYTHON_OTHER, SITE_PACKAGES>>, P, V1)]
      [] bytes = PAYLOAD_NO_SITE ->
            [ok |-> TRUE, tree |-> (<<PYTHON_DIR>> :> DirNode)]
      [] OTHER -> [ok |-> FALSE, tree |-> EmptyTree]

\* lines 328-338: the site-packages directory inside the unpacked tree, whose
\* paths are relative to data/data/com.termux/files/usr/lib
SitePackagesIn(tree) ==
    IF <<PYTHON_DIR, SITE_PACKAGES>> \in DOMAIN tree
    THEN {<<PYTHON_DIR, SITE_PACKAGES>>}
    ELSE {<<d, SITE_PACKAGES>> : d \in {x \in TopLevel(tree) :
              /\ StartsWith(x, PYTHON_PREFIX)
              /\ <<x, SITE_PACKAGES>> \in DOMAIN tree}}

\* shutil.copytree(src, dst, dirs_exist_ok=True): the files of src are
\* written over those of dst
CopyTreeInto(dst, src) ==
    [q \in DOMAIN dst \cup DOMAIN src |-> IF q \in DOMAIN src THEN src[q] ELSE dst[q]]

\* Lines 278-354; deb is the file the repository serves, dl what urlretrieve
\* did: "ok", "fail" (nothing written) or "partial" (it raised with the file
\* begun).
_install_from_termux(pkg, cch, fls, deb, dl) ==
    IF cch[pkg].present THEN FetchResult(TRUE, cch, fls, 0, NotWritten)
    ELSE IF dl = "fail" THEN FetchResult(FALSE, cch, fls, 1, NotWritten)
    ELSE IF dl = "partial"
    THEN FetchResult(FALSE, cch, PutFile(fls, DebFile(pkg), <<>>), 1, NotWritten)
    ELSE
    LET f1 == PutFile(fls, DebFile(pkg), deb)
        scan == ScanDeb(deb)
    IN IF ~scan.ok THEN FetchResult(FALSE, cch, f1, 1, NotWritten)
       ELSE
       LET f2 == IF scan.found THEN PutFile(f1, DataTarFile(pkg), scan.data) ELSE f1
           written == IF scan.found THEN Written(scan.data) ELSE NotWritten
       IN IF TempExtract(pkg) \in DOMAIN f2
          THEN FetchResult(FALSE, cch, f2, 1, written)
          ELSE
          \* from here the finally clause removes temp_extract and data_tar
          LET f3 == RemoveFile(f2, DataTarFile(pkg))
              opened == IF DataTarFile(pkg) \in DOMAIN f2
                        THEN TarOpen(f2[DataTarFile(pkg)])
                        ELSE [ok |-> FALSE, tree |-> EmptyTree]
          IN IF ~opened.ok \/ SitePackagesIn(opened.tree) = {}
             THEN FetchResult(FALSE, cch, f3, 1, written)
             ELSE
             LET src == CHOOSE sp \in SitePackagesIn(opened.tree) : TRUE
                 copied == CopyTreeInto(cch[pkg].tree, Subtree(opened.tree, src))
             IN FetchResult(TRUE, [cch EXCEPT ![pkg] = Entry(copied)],
                            RemoveFile(f3, DebFile(pkg)), 1, written)

(***************************************************************************)
(* _install_from_pypi                                                      *)
(***************************************************************************)
TAR_GZ == <<".", "t", "a", "r", ".", "g", "z">>
ZIP == <<".", "z", "i", "p">>
POST == <<".", "p", "o", "s", "t">>
GZ_SUFFIX == ".gz"
ZIP_SUFFIX == ".zip"

EndsWith(s, p) == Len(p) <= Len(s) /\ SubSeq(s, Len(s) - Len(p) + 1, Len(s)) = p

\* the links of the page whose target ends in suffix, in page order
RECURSIVE LinksEnding(_, _)
LinksEnding(links, suffix) ==
    IF links = <<>> THEN <<>>
    ELSE (IF EndsWith(Head(links).href, suffix) THEN <<Head(links)>> ELSE <<>>)
         \o LinksEnding(Tail(links), suffix)

\* re.search(f'{version_escaped}(?:\.post\d+)?\.(?:tar\.gz|zip)', link)
VersionInLink(link, version) ==
    \E i \in 0..Len(link) :
        /\ StartsWith(Drop(link, i), version)
        /\ LET r == Drop(link, i + Len(version))
               archive(x) == StartsWith(x, TAR_GZ) \/ StartsWith(x, ZIP)
           IN \/ archive(r)
              \/ /\ StartsWith(r, POST)
                 /\ \E k \in 1..Len(r) :
                       /\ IsDigit(SubSeq(r, Len(POST) + 1, Len(POST) + k))
                       /\ archive(Drop(r, Len(POST) + k))

\* lines 396-406: the first link that names the pinned version, else the
\* first link of the page
SelectLink(all_links, operator, version) ==
    LET hits == {i \in DOMAIN all_links : VersionInLink(all_links[i].href, version)}
    IN IF operator = <<"=", "=">> /\ version /= <<>> /\ hits /= {}
       THEN all_links[CHOOSE i \in hits : \A j \in hits : i <= j]
       ELSE all_links[1]

\* Lines 373-463.  page is the index page of the package ([present |-> FALSE]
\* when the index has none), a sequence of links [href, archive] in page order,
\* archive being what the link downloads: [valid, members].  idx is what the
\* request of the page did ("ok" or "fail"), dl what urlretrieve did.
_install_from_pypi(pkg, operator, version, cch, fls, page, idx, dl) ==
    IF idx = "fail" \/ ~page.present
    THEN FetchResult(FALSE, cch, fls, 1, NotWritten)
    ELSE
    LET all_links == LinksEnding(page.links, TAR_GZ) \o LinksEnding(page.links, ZIP)
    IN IF all_links = <<>> THEN FetchResult(FALSE, cch, fls, 1, NotWritten)
       ELSE
       LET selected == SelectLink(all_links, operator, version)
           suffix == IF EndsWith(selected.href, TAR_GZ) THEN GZ_SUFFIX ELSE ZIP_SUFFIX
           pkg_file == SourceFile(pkg, suffix)
       IN IF dl = "fail" THEN FetchResult(FALSE, cch, fls, 2, NotWritten)
          ELSE IF dl = "partial"
          THEN FetchResult(FALSE, cch, PutFile(fls, pkg_file, <<>>), 2, NotWritten)
          ELSE
          LET f1 == PutFile(fls, pkg_file, selected.href)
              \* pkg_cache.mkdir(exist_ok=True)
              made == [cch EXCEPT ![pkg] = Entry(cch[pkg].tree)]
          IN IF ~selected.archive.valid
             THEN FetchResult(FALSE, made, f1, 2, NotWritten)
             ELSE
             LET ex == ExtractArchive(cch[pkg].tree,
                           [kind |-> IF suffix = GZ_SUFFIX THEN "tar" ELSE "zip",
                            members |-> selected.archive.members])
                 filled == [cch EXCEPT ![pkg] = Entry(ex.fs)]
             IN IF ~ex.ok THEN FetchResult(FALSE, filled, f1, 2, NotWritten)
                ELSE FetchResult(TRUE, filled, RemoveFile(f1, pkg_file), 2, NotWritten)

(***************************************************************************)
(* is_installed and the linking step of install                            *)
(***************************************************************************)
DOT_PY == <<".", "p", "y">>
DEFAULT_VERSION == <<"0", ".", "0", ".", "0">>

\* the modules the process can import from the rest of sys.path (the
\* launcher's own packages), with the __version__ each declares
HostModules == (K :> V1)

\* what the name item of a tree is: a file with its bytes, or a directory
\* with the tree under it
ItemOf(tree, item) ==
    [dir |-> tree[<<item>>].dir, data |-> tree[<<item>>].data,
     tree |-> Subtree(tree, <<item>>)]

\* an entry of a site directory: a symbolic link to an item of a cache entry,
\* or a copy of what the item was
LinkTo(pkg, item) ==
    [kind |-> "link", pkg |-> pkg, item |-> item,
     snap |-> [dir |-> FALSE, data |-> <<>>, tree |-> EmptyTree]]
CopyOf(pkg, item, snap) ==
    [kind |-> "copy", pkg |-> pkg, item |-> item, snap |-> snap]

\* whether the entry's path exists (Path.exists() follows a link)
EntryExists(e, cch) ==
    e.kind = "copy" \/ (cch[e.pkg].present /\ <<e.item>> \in DOMAIN cch[e.pkg].tree)

\* what the entry's path resolves to
Resolve(e, cch) ==
    IF e.kind = "copy" THEN e.snap ELSE ItemOf(cch[e.pkg].tree, e.item)

\* the module a directory of sys.path provides under a name: a package
\* <name>/__init__.py, a module <name>.py or a namespace package <name>/;
\* ver is the bytes that declare __version__ (none: <<>>)
NoModule == [found |-> FALSE, ver |-> <<>>]
Module(ver) == [found |-> TRUE, ver |-> ver]
FindInSite(entries, cch, name) ==
    LET has(n) == n \in DOMAIN entries /\ EntryExists(entries[n], cch)
        pkgdir == IF has(name) THEN Resolve(entries[name], cch)
                  ELSE [dir |-> FALSE, data |-> <<>>, tree |-> EmptyTree]
        pyfile == IF has(name \o DOT_PY) THEN Resolve(entries[name \o DOT_PY], cch)
                  ELSE [dir |-> TRUE, data |-> <<>>, tree |-> EmptyTree]
    IN IF pkgdir.dir /\ IsFileAt(pkgdir.tree, <<INIT_PY>>)
       THEN Module(pkgdir.tree[<<INIT_PY>>].data)
       ELSE IF has(name \o DOT_PY) /\ ~pyfile.dir THEN Module(pyfile.data)
       ELSE IF pkgdir.dir THEN Module(<<>>)
       ELSE NoModule

\* The entries of sys.path: the site directory of a project (named by the
\* project), what the path holds when the process starts, and the directory
\* of the entry point
HOST == "host"
ENTRY == "entry"
StartPath == <<HOST>>

\* _get_project_name(): the directory of sys.argv[0], the same for every
\* call the process makes
CurrentProject == "A"

\* the module one entry of sys.path provides under a name
FindInEntry(e, st, cch, name) ==
    IF e \in DOMAIN st
    THEN IF st[e].present THEN FindInSite(st[e].entries, cch, name) ELSE NoModule
    ELSE IF e = HOST /\ name \in DOMAIN HostModules THEN Module(HostModules[name])
    ELSE NoModule

\* the first entry of the path that provides the module
RECURSIVE FindInPath(_, _, _, _)
FindInPath(path, st, cch, name) ==
    IF path = <<>> THEN NoModule
    ELSE LET m == FindInEntry(Head(path), st, cch, name)
         IN IF m.found THEN m ELSE FindInPath(Tail(path), st, cch, name)

\* mod = __import__(pkg_name): a module already in sys.modules is returned
\* as it is, else sys.path is searched in order
Import(mods, path, st, cch, name) ==
    IF name \in DOMAIN mods THEN [found |-> TRUE, ver |-> mods[name], mods |-> mods]
    ELSE LET m == FindInPath(path, st, cch, name)
         IN [found |-> m.found, ver |-> m.ver,
             mods |-> IF m.found
                      THEN [n \in DOMAIN mods \cup {name} |->
                               IF n = name THEN m.ver ELSE mods[n]]
                      ELSE mods]

\* get_project_site_packages: site_dir.mkdir(parents=True, exist_ok=True)
MakeSite(st, project) == [st EXCEPT ![project].present = TRUE]

\* lines 548-551: getattr(mod, '__version__', '0.0.0') and the comparison
InstalledResult(found, installed_ver, op, ver) ==
    found /\ _version_satisfies(IF installed_ver = <<>> THEN DEFAULT_VERSION
                                ELSE installed_ver, op, ver)

\* line 553, in the finally clause: sys.path[:] = original_path
RestorePath(original_path, inserted) == original_path

\* lines 539-555: the boolean, and the site directories, sys.modules and
\* sys.path after the call
is_installed(requirement, project, st, cch, mods, path) ==
    LET r == _parse_requirement(requirement)
    IN IF ~r.ok THEN [result |-> FALSE, site |-> st, mods |-> mods, path |-> path]
       ELSE LET made == MakeSite(st, project)
                original_path == path
                inserted == <<project>> \o path
                imp == Import(mods, inserted, made, cch, r.name)
            IN [result |-> InstalledResult(imp.found, imp.ver, r.op, r.ver),
                site |-> made, mods |-> imp.mods,
                path |-> RestorePath(original_path, inserted)]

\* the loop without the test of link_path.exists()
LinkItemsOverwrite(entries, pkg, cch, symlinks) ==
    LET items == TopLevel(cch[pkg].tree)
    IN [n \in DOMAIN entries \cup items |->
           IF n \in items
           THEN IF symlinks THEN LinkTo(pkg, n)
                ELSE CopyOf(pkg, n, ItemOf(cch[pkg].tree, n))
           ELSE entries[n]]

\* lines 614-624: a link (a copy where symlink_to fails) for every item of
\* the cache entry whose name does not exist in the site directory
LinkItems(entries, pkg, cch, symlinks) ==
    LET items == TopLevel(cch[pkg].tree)
        taken(n) == n \in DOMAIN entries /\ EntryExists(entries[n], cch)
    IN [n \in DOMAIN entries \cup items |->
           IF n \in items /\ ~taken(n)
           THEN IF symlinks THEN LinkTo(pkg, n)
                ELSE CopyOf(pkg, n, ItemOf(cch[pkg].tree, n))
           ELSE entries[n]]

\* the items of the cache entry the loop has to link: line 616
Pending(entries, pkg, cch) ==
    {n \in TopLevel(cch[pkg].tree) :
        ~(n \in DOMAIN entries /\ EntryExists(entries[n], cch))}

(***************************************************************************)
(* The parser and the comparator as operations on inputs drawn from        *)
(* bounded sets.                                                           *)
(***************************************************************************)
MaxRest == 3
MaxVerLen == 3

RecognizedOps ==
    {<<"=", "=">>, <<">", "=">>, <<"<", "=">>, <<">">>, <<"<">>,
     <<"!", "=">>, <<"~", "=">>}

NameSamples ==
    {<<>>, <<"a">>, <<"B", "_">>, <<"a", "-", "1">>, <<"_", "C">>}
RestAlphabet == {"=", "<", ">", "!", "~", " ", "1", "."}

VersionSamples ==
    {<<"1", ".", "4", ".", "5">>, <<"1", ".", "4", ".", "2">>,
     <<"1", ".", "5", ".", "0">>, <<"2", ".", "0">>,
     <<"2", ".", "0", ".", "0">>, <<"1", ".", "4">>,
     <<"1", ".", "4", ".", "5", ".", "1">>,
     <<"1", ".", "0", "r", "c", "1">>, <<"1", "a", ".", "2">>,
     <<"v", "1">>, <<"1", "0">>, <<"9">>}
VersionStrings == SeqsUpTo({"0", "1", "."}, MaxVerLen) \cup VersionSamples
OperatorInputs == RecognizedOps \cup {<<>>, <<"=">>}

MaxArMembers == 3
MaxTarMembers == 3

Pkgs == {P, QR, K}
Projects == {"A", "B"}

\* no install() call
NoCall ==
    [pc |-> "idle", req |-> <<>>, project |-> "A", source |-> "auto",
     name |-> <<>>, op |-> <<>>, ver |-> <<>>, probe |-> "none",
     chosen |-> "none", attempts |-> <<>>, net |-> 0, linked |-> FALSE,
     result |-> FALSE, n |-> 0]
\* no direct call of is_installed
NoQuery == [done |-> FALSE, project |-> "A", result |-> FALSE]
\* the two processes that call install() at the same time, each with its own
\* interpreter, and the project each one installs for
RaceProcs == {1, 2}
RaceProject(i) == IF i = 1 THEN "A" ELSE "B"
\* no install() call running beside another
NoRace ==
    [on |-> FALSE, pc |-> [i \in RaceProcs |-> "idle"],
     result |-> [i \in RaceProcs |-> FALSE],
     raised |-> [i \in RaceProcs |-> FALSE],
     source |-> [i \in RaceProcs |-> "termux"],
     n |-> [i \in RaceProcs |-> 0], net |-> [i \in RaceProcs |-> 0]]
NoFetch ==
    [done |-> FALSE, kind |-> "none", idx |-> "none", dl |-> "none",
     ok |-> FALSE, net |-> 0, written |-> NotWritten]

Absent == [present |-> FALSE, members |-> <<>>]
NoPage == [present |-> FALSE, links |-> <<>>]

\* a process that has imported nothing, an empty cache directory, projects
\* without a site directory yet
DiskEmpty ==
    /\ cache = [pkg \in Pkgs |-> NoEntry]
    /\ files = <<>>
    /\ site = [pr \in Projects |-> [present |-> FALSE, entries |-> <<>>]]
ProcIdle ==
    /\ sysPath = StartPath
    /\ ensured = 0
    /\ query = NoQuery
    /\ race = NoRace
    /\ sysModules = <<>>
    /\ call = NoCall
    /\ prev = [ended |-> FALSE, req |-> <<>>, project |-> "A",
               source |-> "auto", result |-> FALSE]
InstallIdle ==
    /\ termuxRepo = [pkg \in Pkgs |-> Absent]
    /\ pypiIndex = [pkg \in Pkgs |-> NoPage]
    /\ symlinksWork = TRUE
    /\ copyWorks = TRUE
    /\ DiskEmpty
    /\ ProcIdle
    /\ fetchOut = NoFetch

ParseIdle ==
    /\ parseIn = <<>>
    /\ parseOut = [done |-> FALSE, r |-> ParseError("")]
VerIdle ==
    /\ verIn = [installed |-> <<>>, operator |-> <<>>, required |-> <<>>]
    /\ verOut = [done |-> FALSE, r |-> FALSE]

InitParse ==
    /\ parseIn \in {n \o r : n \in NameSamples, r \in SeqsUpTo(RestAlphabet, MaxRest)}
    /\ parseOut = [done |-> FALSE, r |-> ParseError("")]
    /\ VerIdle
    /\ InstallIdle

\* one call of _parse_requirement
Parse ==
    /\ ~parseOut.done
    /\ parseOut' = [done |-> TRUE, r |-> _parse_requirement(parseIn)]
    /\ UNCHANGED <<parseIn, verVars, envVars, diskVars, procVars, fetchOut, pathVars, raceVars>>

NextParse == Parse
SpecParse == InitParse /\ [][NextParse]_vars

InitVersion ==
    /\ verIn \in [installed : VersionStrings, operator : OperatorInputs,
                  required : VersionStrings]
    /\ verOut = [done |-> FALSE, r |-> FALSE]
    /\ ParseIdle
    /\ InstallIdle

\* one call of _version_satisfies
VersionSatisfies ==
    /\ ~verOut.done
    /\ verOut' = [done |-> TRUE,
                  r |-> _version_satisfies(verIn.installed, verIn.operator,
                                           verIn.required)]
    /\ UNCHANGED <<verIn, parseVars, envVars, diskVars, procVars, fetchOut, pathVars, raceVars>>

NextVersion == VersionSatisfies
SpecVersion == InitVersion /\ [][NextVersion]_vars

(***************************************************************************)
(* The two extractors called on archives drawn from bounded sets.          *)
(***************************************************************************)
\* the decimal digits of n
RECURSIVE Decimal(_)
Decimal(n) ==
    IF n < 10 THEN <<DigitSeq[n + 1]>>
    ELSE Decimal(n \div 10) \o <<DigitSeq[(n % 10) + 1]>>

PadRight(s, n) == s \o [i \in 1..(n - Len(s)) |-> " "]

\* the 60-byte header of an ar member: name (16), mtime (12), uid (6),
\* gid (6), mode (8), size (10, decimal), the end bytes 0x60 0x0a
ArHeader(name, size) ==
    PadRight(name, 16) \o PadRight(<<"0">>, 12) \o PadRight(<<"0">>, 6)
    \o PadRight(<<"0">>, 6) \o PadRight(<<"1", "0", "0", "6", "4", "4">>, 8)
    \o PadRight(Decimal(size), 10) \o <<"\\x60", "\n">>

\* a well-formed ar container: the magic, then for each member its header,
\* its content and one pad byte after a content of odd length
RECURSIVE ArBody(_)
ArBody(members) ==
    IF members = <<>> THEN <<>>
    ELSE LET m == Head(members)
         IN ArHeader(m.name, Len(m.data)) \o m.data
            \o (IF Len(m.data) % 2 = 1 THEN <<"\n">> ELSE <<>>)
            \o ArBody(Tail(members))
ArEncode(members) == AR_MAGIC \o ArBody(members)

DEBIAN_BINARY == <<"d", "e", "b", "i", "a", "n", "-", "b", "i", "n", "a", "r", "y">>
CONTROL_TAR == <<"c", "o", "n", "t", "r", "o", "l", ".", "t", "a", "r", ".", "x", "z">>
DATA_TAR_XZ == <<"d", "a", "t", "a", ".", "t", "a", "r", ".", "x", "z">>

ArMemberSamples ==
    [name : {DEBIAN_BINARY, CONTROL_TAR, DATA_TAR_XZ},
     data : {<<>>, PAYLOAD_NO_SITE, PAYLOAD_P1, PAYLOAD_P1_OTHER}]

InitAr ==
    /\ \E ms \in SeqsUpTo(ArMemberSamples, MaxArMembers) :
          termuxRepo = [pkg \in Pkgs |->
              IF pkg = P THEN [present |-> TRUE, members |-> ms] ELSE Absent]
    /\ pypiIndex = [pkg \in Pkgs |-> NoPage]
    /\ symlinksWork = TRUE
    /\ copyWorks = TRUE
    /\ DiskEmpty
    /\ ProcIdle
    /\ fetchOut = NoFetch
    /\ ParseIdle
    /\ VerIdle

\* one call _install_from_termux("p")
CallInstallFromTermux ==
    /\ ~fetchOut.done
    /\ \E dl \in {"ok", "fail", "partial"} :
          LET r == _install_from_termux(P, cache, files,
                                        ArEncode(termuxRepo[P].members), dl)
          IN /\ cache' = r.cache
             /\ files' = r.files
             /\ fetchOut' = [done |-> TRUE, kind |-> "termux", idx |-> "none",
                             dl |-> dl, ok |-> r.ok, net |-> r.net,
                             written |-> r.written]
    /\ UNCHANGED <<parseVars, verVars, envVars, site, procVars, pathVars, raceVars>>

NextAr == CallInstallFromTermux
SpecAr == InitAr /\ [][NextAr]_vars

ROOT == <<"p", "-", "1", ".", "0">>
SDIST_P1 == <<"p", "-", "1", ".", "0", ".", "t", "a", "r", ".", "g", "z">>
OK_BYTES == <<"o", "k">>

TarMemberSamples ==
    {[name |-> <<ROOT>>, isfile |-> FALSE, data |-> <<>>],
     [name |-> <<ROOT, P>>, isfile |-> FALSE, data |-> <<>>],
     [name |-> <<ROOT, P, INIT_PY>>, isfile |-> TRUE, data |-> OK_BYTES],
     [name |-> <<ROOT, P, SETUP_PY>>, isfile |-> TRUE, data |-> V1],
     [name |-> <<ROOT, SETUP_PY>>, isfile |-> TRUE, data |-> <<>>]}

\* member lists with distinct names
TarArchives ==
    {ms \in SeqsUpTo(TarMemberSamples, MaxTarMembers) :
        \A i, j \in DOMAIN ms : i /= j => ms[i].name /= ms[j].name}

InitTar ==
    /\ \E ms \in TarArchives :
          pypiIndex = [pkg \in Pkgs |->
              IF pkg = P
              THEN [present |-> TRUE,
                    links |-> <<[href |-> SDIST_P1,
                                 archive |-> [valid |-> TRUE, members |-> ms]]>>]
              ELSE NoPage]
    /\ termuxRepo = [pkg \in Pkgs |-> Absent]
    /\ symlinksWork = TRUE
    /\ copyWorks = TRUE
    /\ DiskEmpty
    /\ ProcIdle
    /\ fetchOut = NoFetch
    /\ ParseIdle
    /\ VerIdle

\* one call _install_from_pypi("p")
CallInstallFromPypi ==
    /\ ~fetchOut.done
    /\ \E idx \in {"ok", "fail"}, dl \in {"ok", "fail", "partial"} :
          LET r == _install_from_pypi(P, <<>>, <<>>, cache, files,
                                      pypiIndex[P], idx, dl)
          IN /\ cache' = r.cache
             /\ files' = r.files
             /\ fetchOut' = [done |-> TRUE, kind |-> "pypi", idx |-> idx,
                             dl |-> dl, ok |-> r.ok, net |-> r.net,
                             written |-> r.written]
    /\ UNCHANGED <<parseVars, verVars, envVars, site, procVars, pathVars, raceVars>>

NextTar == CallInstallFromPypi
SpecTar == InitTar /\ [][NextTar]_vars

(***************************************************************************)
(* install(): the calls one process makes, one after the other.  A call    *)
(* goes CHECKING_SATISFIED, SELECTING_SOURCE, FETCHING, LINKING and ends    *)
(* DONE (true), FAILED (false) or RAISED (the ValueError of a malformed     *)
(* requirement).                                                            *)
(***************************************************************************)
MaxCalls == 2

REQ_P == <<"p">>
REQ_P_GE2 == <<"p", ">", "=", "2", ".", "0">>
REQ_P_EQ1 == <<"p", "=", "=", "1", ".", "0">>
REQ_Q_R == Q_R
REQ_K == K
ReqSamples == {REQ_P, REQ_P_GE2, REQ_P_EQ1, REQ_Q_R, REQ_K, <<>>}
Sources == {"termux", "pypi", "auto"}

ROOT2 == <<"p", "-", "2", ".", "0">>
ROOT_QR == <<"q", "_", "r", "-", "1", ".", "0">>
SDIST_P2 == <<"p", "-", "2", ".", "0", ".", "t", "a", "r", ".", "g", "z">>
SDIST_QR == <<"q", "_", "r", "-", "1", ".", "0", ".", "z", "i", "p">>

\* an sdist <root>/setup.py, <root>/<module>/__init__.py
Sdist(root, module, version) ==
    [valid |-> TRUE,
     members |-> <<[name |-> <<root>>, isfile |-> FALSE, data |-> <<>>],
                   [name |-> <<root, SETUP_PY>>, isfile |-> TRUE, data |-> <<>>],
                   [name |-> <<root, module>>, isfile |-> FALSE, data |-> <<>>],
                   [name |-> <<root, module, INIT_PY>>, isfile |-> TRUE,
                    data |-> version]>>]

\* the repositories the calls run against: python-p 1.0 in the binary
\* repository; p 2.0 and 1.0 (tar.gz) and q_r 1.0 (zip) in the source index
TermuxRepoSample ==
    [pkg \in Pkgs |->
        IF pkg = P
        THEN [present |-> TRUE,
              members |-> <<[name |-> DEBIAN_BINARY, data |-> <<"2", ".", "0", "\n">>],
                            [name |-> CONTROL_TAR, data |-> <<"c">>],
                            [name |-> DATA_TAR_XZ, data |-> PAYLOAD_P1]>>]
        ELSE Absent]
PypiIndexSample ==
    [pkg \in Pkgs |->
        IF pkg = P
        THEN [present |-> TRUE,
              links |-> <<[href |-> SDIST_P2, archive |-> Sdist(ROOT2, P, V2)],
                          [href |-> SDIST_P1, archive |-> Sdist(ROOT, P, V1)]>>]
        ELSE IF pkg = QR
        THEN [present |-> TRUE,
              links |-> <<[href |-> SDIST_QR, archive |-> Sdist(ROOT_QR, Q_R, V1)]>>]
        ELSE NoPage]

Init ==
    /\ termuxRepo = TermuxRepoSample
    /\ pypiIndex = PypiIndexSample
    /\ symlinksWork \in BOOLEAN
    /\ copyWorks \in BOOLEAN
    /\ symlinksWork => copyWorks
    /\ DiskEmpty
    /\ ProcIdle
    /\ fetchOut = NoFetch
    /\ ParseIdle
    /\ VerIdle

Ended(c) == c.pc \in {"DONE", "FAILED", "RAISED"}

\* what is kept of the call that ended before the current one
Summary(c) ==
    [ended |-> Ended(c), req |-> c.req, project |-> c.project,
     source |-> c.source, result |-> c.result]

\* install(requirement, project_name, source) is called; line 583 parses the
\* requirement, and a ValueError leaves the call
Call(requirement, project, source) ==
    /\ call.pc = "idle" \/ Ended(call)
    /\ call.n < MaxCalls
    /\ LET r == _parse_requirement(requirement)
       IN call' = [NoCall EXCEPT !.pc = IF r.ok THEN "CHECKING_SATISFIED" ELSE "RAISED",
                                 !.req = requirement, !.project = project,
                                 !.source = source, !.name = r.name,
                                 !.op = r.op, !.ver = r.ver, !.n = call.n + 1]
    /\ prev' = Summary(call)
    /\ UNCHANGED <<parseVars, verVars, envVars, diskVars, sysModules, fetchOut, pathVars, raceVars>>

\* lines 585-588: already satisfied
CheckSatisfied ==
    /\ call.pc = "CHECKING_SATISFIED"
    /\ LET r == is_installed(call.req, call.project, site, cache, sysModules,
                              sysPath)
       IN /\ site' = r.site
          /\ sysModules' = r.mods
          /\ sysPath' = r.path
          /\ call' = IF r.result
                     THEN [call EXCEPT !.pc = "DONE", !.result = TRUE]
                     ELSE [call EXCEPT !.pc = "SELECTING_SOURCE"]
    /\ UNCHANGED <<parseVars, verVars, envVars, cache, files, prev, fetchOut, ensured, query, raceVars>>

\* lines 592-603: the source named by the caller, or by the probe of the
\* binary repository (_termux_package_exists: a HEAD request that answers 200)
SelectSource ==
    /\ call.pc = "SELECTING_SOURCE"
    /\ \/ /\ call.source \in {"termux", "pypi"}
          /\ call' = [call EXCEPT !.pc = "FETCHING", !.chosen = call.source]
       \/ /\ call.source = "auto"
          /\ \E answered \in BOOLEAN :
                LET exists == answered /\ termuxRepo[call.name].present
                IN call' = [call EXCEPT !.pc = "FETCHING",
                                        !.probe = IF exists THEN "present" ELSE "absent",
                                        !.chosen = IF exists THEN "termux" ELSE "pypi",
                                        !.net = call.net + 1]
    /\ UNCHANGED <<parseVars, verVars, envVars, diskVars, sysModules, prev, fetchOut, pathVars,
                   raceVars>>

\* lines 605-607 with a second try from the other source
OnFetchFailedFallBack(c) ==
    IF c.source = "auto" /\ c.chosen = "termux"
    THEN [c EXCEPT !.pc = "FETCHING", !.chosen = "pypi"]
    ELSE [c EXCEPT !.pc = "FAILED", !.result = FALSE]

\* lines 605-607: not success
OnFetchFailed(c) == [c EXCEPT !.pc = "FAILED", !.result = FALSE]

\* what the chosen extractor does; a package the repository does not hold
\* cannot be downloaded
Fetched(c, r) ==
    LET after == [c EXCEPT !.attempts = Append(c.attempts, c.chosen),
                           !.net = c.net + r.net]
    IN IF r.ok THEN [after EXCEPT !.pc = "LINKING"] ELSE OnFetchFailed(after)

FetchTermux ==
    /\ call.pc = "FETCHING" /\ call.chosen = "termux"
    /\ \E dl \in IF termuxRepo[call.name].present THEN {"ok", "fail"}
                 ELSE {"fail"} :
          LET r == _install_from_termux(call.name, cache, files,
                       ArEncode(termuxRepo[call.name].members), dl)
          IN /\ cache' = r.cache
             /\ files' = r.files
             /\ call' = Fetched(call, r)
    /\ UNCHANGED <<parseVars, verVars, envVars, site, sysModules, prev, fetchOut, pathVars,
                   raceVars>>

FetchPypi ==
    /\ call.pc = "FETCHING" /\ call.chosen = "pypi"
    /\ \E idx \in {"ok", "fail"}, dl \in {"ok", "fail"} :
          LET r == _install_from_pypi(call.name, call.op, call.ver, cache, files,
                                      pypiIndex[call.name], idx, dl)
          IN /\ cache' = r.cache
             /\ files' = r.files
             /\ call' = Fetched(call, r)
    /\ UNCHANGED <<parseVars, verVars, envVars, site, sysModules, prev, fetchOut, pathVars,
                   raceVars>>

\* lines 619-624: shutil.copytree and shutil.copy2 are called inside the
\* handler of the OSError of symlink_to, and nothing catches what they raise
CopyFailure(c) == [c EXCEPT !.pc = "RAISED", !.result = FALSE]

\* lines 609-627.  Where symlink_to fails the items are copied, and where the
\* copy fails too (an I/O error) the loop stops at the first item it has to
\* link
Link ==
    /\ call.pc = "LINKING"
    /\ LET made == IF cache[call.name].present THEN MakeSite(site, call.project)
                   ELSE site
           pending == IF cache[call.name].present
                      THEN Pending(made[call.project].entries, call.name, cache)
                      ELSE {}
       IN \/ /\ symlinksWork \/ copyWorks \/ pending = {}
             /\ site' = IF cache[call.name].present
                         THEN [made EXCEPT ![call.project].entries =
                                  LinkItems(made[call.project].entries, call.name,
                                            cache, symlinksWork)]
                         ELSE site
             /\ call' = [call EXCEPT !.pc = "DONE", !.result = TRUE,
                                     !.linked = cache[call.name].present]
          \/ /\ ~symlinksWork /\ ~copyWorks
             /\ pending /= {}
             /\ site' = made
             /\ call' = CopyFailure(call)
    /\ UNCHANGED <<parseVars, verVars, envVars, cache, files, sysModules, prev, fetchOut,
                   pathVars, raceVars>>

Next ==
    \/ \E requirement \in ReqSamples, project \in Projects, source \in Sources :
          Call(requirement, project, source)
    \/ CheckSatisfied
    \/ SelectSource
    \/ FetchTermux
    \/ FetchPypi
    \/ Link

Spec == Init /\ [][Next]_vars

(***************************************************************************)
(* The calls a process makes beside install(): is_installed,               *)
(* ensure_project_site_packages, and run_entrypoint of main.py.  Python    *)
(* runs them one after the other, never inside an install() call.  The     *)
(* install() calls are those of the current project; is_installed is       *)
(* called for both projects.                                               *)
(***************************************************************************)
MaxEnsures == 2
MaxProcCalls == 1

ProcReqs == {<<>>, REQ_P, REQ_Q_R, REQ_K}
ProcInstallReqs == {REQ_P, REQ_Q_R}
ProcSources == {"auto", "pypi"}

InitProc == Init

BetweenCalls == call.pc = "idle" \/ Ended(call)

\* the site directory put in front of the path whether it is there or not
PrependAlways(path, site_dir) == <<site_dir>> \o path

\* lines 523-524: if site_dir not in sys.path: sys.path.insert(0, site_dir)
EnsurePath(path, site_dir) ==
    IF site_dir \in Range(path) THEN path ELSE <<site_dir>> \o path

\* ensure_project_site_packages(), lines 515-525; get_project_site_packages
\* makes the directory
EnsureProjectSitePackages ==
    /\ BetweenCalls
    /\ ensured < MaxEnsures
    /\ site' = MakeSite(site, CurrentProject)
    /\ sysPath' = EnsurePath(sysPath, CurrentProject)
    /\ ensured' = ensured + 1
    /\ UNCHANGED <<parseVars, verVars, envVars, cache, files, procVars, fetchOut,
                   query, raceVars>>

\* run_entrypoint of main.py, lines 98-107, up to runpy.run_path: the site
\* directory is ensured, then the entry point's directory is put in front
RunEntrypoint ==
    /\ BetweenCalls
    /\ ensured < MaxEnsures
    /\ ENTRY \notin Range(sysPath)
    /\ site' = MakeSite(site, CurrentProject)
    /\ sysPath' = <<ENTRY>> \o EnsurePath(sysPath, CurrentProject)
    /\ ensured' = ensured + 1
    /\ UNCHANGED <<parseVars, verVars, envVars, cache, files, procVars, fetchOut,
                   query, raceVars>>

\* one call is_installed(requirement, project)
IsInstalled(requirement, project) ==
    /\ BetweenCalls
    /\ LET r == is_installed(requirement, project, site, cache, sysModules,
                              sysPath)
       IN /\ site' = r.site
          /\ sysModules' = r.mods
          /\ sysPath' = r.path
          /\ query' = [done |-> TRUE, project |-> project, result |-> r.result]
    /\ UNCHANGED <<parseVars, verVars, envVars, cache, files, call, prev, fetchOut,
                   ensured, raceVars>>

NextProc ==
    \/ EnsureProjectSitePackages
    \/ RunEntrypoint
    \/ \E requirement \in ProcReqs, project \in Projects :
          IsInstalled(requirement, project)
    \/ \E requirement \in ProcInstallReqs, source \in ProcSources :
          call.n < MaxProcCalls /\ Call(requirement, CurrentProject, source)
    \/ CheckSatisfied
    \/ SelectSource
    \/ FetchTermux
    \/ FetchPypi
    \/ Link

SpecProc == InitProc /\ [][NextProc]_vars

(***************************************************************************)
(* Two install(P, project, source) calls, source "termux" or "pypi", that  *)
(* run at the same time on one cache directory.  Each step is one file     *)
(* system operation (or one run of operations on files no other call       *)
(* touches) of lines 278-350, 376-458 and 609-624; the steps of the two     *)
(* calls interleave freely, the code taking no lock.                       *)
(***************************************************************************)
MaxRaceCalls == 2

InitRace ==
    /\ termuxRepo = TermuxRepoSample
    /\ pypiIndex = PypiIndexSample
    /\ symlinksWork \in BOOLEAN
    /\ copyWorks = TRUE
    /\ DiskEmpty
    /\ sysPath = StartPath /\ ensured = 0 /\ query = NoQuery
    /\ sysModules = <<>>
    /\ call = NoCall
    /\ prev = [ended |-> FALSE, req |-> <<>>, project |-> "A",
               source |-> "auto", result |-> FALSE]
    /\ race = [NoRace EXCEPT !.on = TRUE]
    /\ fetchOut = NoFetch
    /\ ParseIdle
    /\ VerIdle

\* a pkg_cache.exists() test that is true only of a populated entry
PkgCacheComplete(cch, pkg) == cch[pkg].present /\ cch[pkg].tree /= EmptyTree

\* pkg_cache.exists(), lines 280 and 611
PkgCacheExists(cch, pkg) == cch[pkg].present

RaceGoto(i, pc) == [race EXCEPT !.pc[i] = pc]
\* the handler of line 352: _install_from_termux returns False, and install
\* returns False at lines 605-607
RaceFail(i) == [race EXCEPT !.pc[i] = "FAILED", !.result[i] = FALSE]
RaceEnded(i) == race.pc[i] \in {"DONE", "FAILED"}
RaceFrame == <<parseVars, verVars, envVars, sysModules, call, prev, fetchOut, pathVars>>

\* what .tmp_<pkg> holds: the tree of the tar that was unpacked into it
TempTree(fls) ==
    IF TempExtract(P) \in DOMAIN fls /\ TarOpen(fls[TempExtract(P)]).ok
    THEN TarOpen(fls[TempExtract(P)]).tree
    ELSE EmptyTree

\* install(P, RaceProject(i), source) is called
RaceCall(i, source) ==
    /\ race.pc[i] = "idle" \/ RaceEnded(i)
    /\ race.n[i] < MaxRaceCalls
    /\ race' = [race EXCEPT !.pc[i] = "CHECKING_SATISFIED", !.result[i] = FALSE,
                            !.raised[i] = FALSE, !.source[i] = source,
                            !.n[i] = @ + 1]
    /\ UNCHANGED <<RaceFrame, cache, files, site>>

\* line 586
RaceCheckSatisfied(i) ==
    /\ race.pc[i] = "CHECKING_SATISFIED"
    /\ LET r == is_installed(REQ_P, RaceProject(i), site, cache, <<>>, StartPath)
       IN /\ site' = r.site
          /\ race' = IF r.result
                     THEN [race EXCEPT !.pc[i] = "DONE", !.result[i] = TRUE]
                     ELSE IF race.source[i] = "termux"
                     THEN RaceGoto(i, "CACHE_CHECK")
                     ELSE RaceGoto(i, "PYPI_INDEX")
    /\ UNCHANGED <<RaceFrame, cache, files>>

\* lines 278-281
RaceCacheCheck(i) ==
    /\ race.pc[i] = "CACHE_CHECK"
    /\ race' = IF PkgCacheExists(cache, P) THEN RaceGoto(i, "LINKING")
               ELSE RaceGoto(i, "DOWNLOADING")
    /\ UNCHANGED <<RaceFrame, cache, files, site>>

\* lines 285-289: urlretrieve writes <cache>/<pkg>.deb
RaceDownload(i) ==
    /\ race.pc[i] = "DOWNLOADING"
    /\ files' = PutFile(files, DebFile(P), ArEncode(termuxRepo[P].members))
    /\ race' = [race EXCEPT !.pc[i] = "SCANNING", !.net[i] = @ + 1]
    /\ UNCHANGED <<RaceFrame, cache, site>>

\* lines 292-317: the .deb is opened and data.tar written to
\* <cache>/<pkg>_data.tar.xz
RaceScan(i) ==
    /\ race.pc[i] = "SCANNING"
    /\ IF DebFile(P) \notin DOMAIN files
       THEN /\ race' = RaceFail(i)
            /\ files' = files
       ELSE LET scan == ScanDeb(files[DebFile(P)])
            IN IF ~scan.ok
               THEN /\ race' = RaceFail(i)
                    /\ files' = files
               ELSE /\ race' = RaceGoto(i, "MKTEMP")
                    /\ files' = IF scan.found
                                THEN PutFile(files, DataTarFile(P), scan.data)
                                ELSE files
    /\ UNCHANGED <<RaceFrame, cache, site>>

\* lines 320-321: temp_extract.mkdir() raises when .tmp_<pkg> exists
RaceMkTemp(i) ==
    /\ race.pc[i] = "MKTEMP"
    /\ IF TempExtract(P) \in DOMAIN files
       THEN /\ race' = RaceFail(i)
            /\ files' = files
       ELSE /\ race' = RaceGoto(i, "EXTRACTING")
            /\ files' = PutFile(files, TempExtract(P), <<>>)
    /\ UNCHANGED <<RaceFrame, cache, site>>

\* lines 324-325: tarfile.open(data_tar) and extractall, which makes the
\* directories it needs
RaceExtract(i) ==
    /\ race.pc[i] = "EXTRACTING"
    /\ IF DataTarFile(P) \in DOMAIN files /\ TarOpen(files[DataTarFile(P)]).ok
       THEN /\ files' = PutFile(files, TempExtract(P), files[DataTarFile(P)])
            /\ race' = RaceGoto(i, "LOCATING")
       ELSE /\ files' = files
            /\ race' = [race EXCEPT !.pc[i] = "CLEANING", !.raised[i] = TRUE]
    /\ UNCHANGED <<RaceFrame, cache, site>>

\* lines 328-341: site-packages is looked up in the unpacked tree, then
\* copytree lists it and makes the cache entry's directory
RaceCopyStart(i) ==
    /\ race.pc[i] = "LOCATING"
    /\ IF SitePackagesIn(TempTree(files)) = {}
       THEN /\ cache' = cache
            /\ race' = [race EXCEPT !.pc[i] = "CLEANING", !.raised[i] = TRUE]
       ELSE /\ cache' = [cache EXCEPT ![P].present = TRUE]
            /\ race' = RaceGoto(i, "COPYING")
    /\ UNCHANGED <<RaceFrame, files, site>>

\* line 341: copytree copies the files; it raises at its end when the source
\* was removed under it
RaceCopyFiles(i) ==
    /\ race.pc[i] = "COPYING"
    /\ IF SitePackagesIn(TempTree(files)) = {}
       THEN /\ cache' = cache
            /\ race' = [race EXCEPT !.pc[i] = "CLEANING", !.raised[i] = TRUE]
       ELSE LET src == CHOOSE sp \in SitePackagesIn(TempTree(files)) : TRUE
            IN /\ cache' = [cache EXCEPT ![P] =
                               Entry(CopyTreeInto(cache[P].tree,
                                                  Subtree(TempTree(files), src)))]
               /\ race' = RaceGoto(i, "CLEANING")
    /\ UNCHANGED <<RaceFrame, files, site>>

\* lines 343-350: the finally clause, then deb_path.unlink when nothing was
\* raised
RaceCleanup(i) ==
    /\ race.pc[i] = "CLEANING"
    /\ LET swept == RemoveFile(RemoveFile(files, TempExtract(P)), DataTarFile(P))
       IN IF race.raised[i]
          THEN /\ files' = swept
               /\ race' = RaceFail(i)
          ELSE /\ files' = RemoveFile(swept, DebFile(P))
               /\ race' = RaceGoto(i, "LINKING")
    /\ UNCHANGED <<RaceFrame, cache, site>>

\* lines 396-408: the link _install_from_pypi selects for the requirement p
RaceSelected ==
    SelectLink(LinksEnding(pypiIndex[P].links, TAR_GZ)
                  \o LinksEnding(pypiIndex[P].links, ZIP), <<>>, <<>>)
RaceSourceFile ==
    SourceFile(P, IF EndsWith(RaceSelected.href, TAR_GZ) THEN GZ_SUFFIX ELSE ZIP_SUFFIX)

\* lines 376-411: the index page is requested and a link selected
RacePypiIndex(i) ==
    /\ race.pc[i] = "PYPI_INDEX"
    /\ race' = [race EXCEPT !.pc[i] = "PYPI_DOWNLOADING", !.net[i] = @ + 1]
    /\ UNCHANGED <<RaceFrame, cache, files, site>>

\* lines 413-414: urlretrieve writes <cache>/<pkg>_source<suffix>
RacePypiDownload(i) ==
    /\ race.pc[i] = "PYPI_DOWNLOADING"
    /\ files' = PutFile(files, RaceSourceFile, RaceSelected.href)
    /\ race' = [race EXCEPT !.pc[i] = "PYPI_MKDIR", !.net[i] = @ + 1]
    /\ UNCHANGED <<RaceFrame, cache, site>>

\* lines 417-418: pkg_cache.mkdir(exist_ok=True)
RacePypiMkdir(i) ==
    /\ race.pc[i] = "PYPI_MKDIR"
    /\ cache' = [cache EXCEPT ![P].present = TRUE]
    /\ race' = RaceGoto(i, "PYPI_EXTRACTING")
    /\ UNCHANGED <<RaceFrame, files, site>>

\* lines 420-456: the archive is opened and its members written into the
\* entry
RacePypiExtract(i) ==
    /\ race.pc[i] = "PYPI_EXTRACTING"
    /\ IF RaceSourceFile \notin DOMAIN files
       THEN /\ cache' = cache
            /\ race' = RaceFail(i)
       ELSE LET ex == ExtractArchive(cache[P].tree,
                          [kind |-> IF EndsWith(RaceSelected.href, TAR_GZ)
                                    THEN "tar" ELSE "zip",
                           members |-> RaceSelected.archive.members])
            IN /\ cache' = [cache EXCEPT ![P] = Entry(ex.fs)]
               /\ race' = IF ex.ok THEN RaceGoto(i, "PYPI_UNLINK") ELSE RaceFail(i)
    /\ UNCHANGED <<RaceFrame, files, site>>

\* line 458: pkg_file.unlink() raises when the file is gone
RacePypiUnlink(i) ==
    /\ race.pc[i] = "PYPI_UNLINK"
    /\ IF RaceSourceFile \notin DOMAIN files
       THEN /\ files' = files
            /\ race' = RaceFail(i)
       ELSE /\ files' = RemoveFile(files, RaceSourceFile)
            /\ race' = RaceGoto(i, "LINKING")
    /\ UNCHANGED <<RaceFrame, cache, site>>

\* lines 609-627
RaceLink(i) ==
    /\ race.pc[i] = "LINKING"
    /\ site' = IF PkgCacheExists(cache, P)
               THEN LET made == MakeSite(site, RaceProject(i))
                    IN [made EXCEPT ![RaceProject(i)].entries =
                           LinkItems(made[RaceProject(i)].entries, P, cache,
                                     symlinksWork)]
               ELSE site
    /\ race' = [race EXCEPT !.pc[i] = "DONE", !.result[i] = TRUE]
    /\ UNCHANGED <<RaceFrame, cache, files>>

RaceSources == {"termux", "pypi"}

RaceStep(i) ==
    \/ \E source \in RaceSources : RaceCall(i, source)
    \/ RaceCheckSatisfied(i)
    \/ RaceCacheCheck(i)
    \/ RaceDownload(i)
    \/ RaceScan(i)
    \/ RaceMkTemp(i)
    \/ RaceExtract(i)
    \/ RaceCopyStart(i)
    \/ RaceCopyFiles(i)
    \/ RaceCleanup(i)
    \/ RacePypiIndex(i)
    \/ RacePypiDownload(i)
    \/ RacePypiMkdir(i)
    \/ RacePypiExtract(i)
    \/ RacePypiUnlink(i)
    \/ RaceLink(i)

NextRace == \E i \in RaceProcs : RaceStep(i)

SpecRace == InitRace /\ [][NextRace]_vars

(***************************************************************************)
(* What the specification says of the parser, stated without the model's   *)
(* own operators.                                                          *)
(***************************************************************************)
\* the canonical form of a name, character by character
IsCanonicalOf(n, name) ==
    /\ Len(n) = Len(name)
    /\ \A i \in DOMAIN name :
          IF name[i] = "_" THEN n[i] = "-"
          ELSE IF \E k \in DOMAIN UpperSeq : UpperSeq[k] = name[i]
               THEN \E k \in DOMAIN UpperSeq :
                       UpperSeq[k] = name[i] /\ n[i] = LowerSeq[k]
               ELSE n[i] = name[i]

AllIn(s, S) == \A i \in DOMAIN s : s[i] \in S
VersionChars == Digits \cup Letters \cup {"."}

\* C7: a string <name><op><version> (name of [A-Za-z0-9_-]+, op one of the
\* seven operators, version a non-empty string of version characters) parses
\* to exactly (canonical(name), op, version), and a bare name parses to
\* (canonical(name), "", "").
C7_ParseRoundTrip ==
    parseOut.done =>
        /\ \A i \in 1..Len(parseIn) : \A j \in i..Len(parseIn) :
              LET name == SubSeq(parseIn, 1, i)
                  op == SubSeq(parseIn, i + 1, j)
                  ver == SubSeq(parseIn, j + 1, Len(parseIn))
              IN (/\ AllIn(name, NameChars)
                  /\ op \in RecognizedOps
                  /\ ver /= <<>>
                  /\ AllIn(ver, VersionChars))
                 => /\ parseOut.r.ok
                    /\ IsCanonicalOf(parseOut.r.name, name)
                    /\ parseOut.r.op = op
                    /\ parseOut.r.ver = ver
        /\ (parseIn /= <<>> /\ AllIn(parseIn, NameChars))
              => /\ parseOut.r.ok
                 /\ IsCanonicalOf(parseOut.r.name, parseIn)
                 /\ parseOut.r.op = <<>>
                 /\ parseOut.r.ver = <<>>

C7_Witness ==
    /\ parseOut.done
    /\ parseIn = <<"B", "_", ">", "=", "1">>
    /\ parseOut.r = ParseOk(<<"b", "-">>, <<">", "=">>, <<"1">>)

\* the text after the name, trimmed
TextAfterName(req0) ==
    LET req == strip(req0)
        upto == {n \in 0..Len(req) : AllIn(SubSeq(req, 1, n), NameChars)}
        n == CHOOSE m \in upto : \A k \in upto : k <= m
    IN strip(SubSeq(req, n + 1, Len(req)))

\* C8: text after the name that starts with none of the seven operators is
\* rejected; every triple returned has its operator among "" and the seven,
\* and a non-empty version when the operator is non-empty.
C8_RejectsUnknownOperator ==
    parseOut.done =>
        /\ LET rest == TextAfterName(parseIn)
           IN (rest /= <<>> /\ ~\E op \in RecognizedOps : StartsWith(rest, op))
                 => ~parseOut.r.ok
        /\ parseOut.r.ok =>
              /\ parseOut.r.op \in RecognizedOps \cup {<<>>}
              /\ (parseOut.r.op /= <<>> => parseOut.r.ver /= <<>>)

(***************************************************************************)
(* What the specification says of the comparator.                          *)
(***************************************************************************)
\* the integer sequence of a version string: cut at the first character that
\* is neither a digit nor '.', split on '.', a non-numeric segment read as 0
RefParts(v) ==
    LET ok == {n \in 0..Len(v) : \A i \in 1..n : v[i] \in Digits \cup {"."}}
        n == CHOOSE m \in ok : \A k \in ok : k <= m
        dots == {i \in 1..n : v[i] = "."}
        nseg == Cardinality(dots) + 1
        \* the position of the k-th dot, 0 before the first and n+1 after the last
        dot(k) == IF k = 0 THEN 0
                  ELSE IF k = nseg THEN n + 1
                  ELSE CHOOSE i \in dots : Cardinality({j \in dots : j < i}) = k - 1
        val(lo, hi) == IF hi < lo THEN 0
                       ELSE LET s == [i \in lo..hi |-> DigitVal(v[i]) * 10^(hi - i)]
                                sum[i \in (lo - 1)..hi] ==
                                    IF i < lo THEN 0 ELSE sum[i - 1] + s[i]
                            IN sum[hi]
    IN [k \in 1..nseg |-> val(dot(k - 1) + 1, dot(k) - 1)]

RefAt(parts, i) == IF i <= Len(parts) THEN parts[i] ELSE 0

\* -1, 0, 1: the zero-padded lexicographic order
RefCmp(a, b) ==
    LET diff == {i \in 1..Max(Len(a), Len(b)) : RefAt(a, i) /= RefAt(b, i)}
    IN IF diff = {} THEN 0
       ELSE LET d == CHOOSE i \in diff : \A j \in diff : i <= j
            IN IF RefAt(a, d) < RefAt(b, d) THEN -1 ELSE 1

RefCompare(a, op, b) ==
    LET c == RefCmp(RefParts(a), RefParts(b))
    IN CASE op = <<"=", "=">> -> c = 0
         [] op = <<"!", "=">> -> c /= 0
         [] op = <<">">> -> c > 0
         [] op = <<">", "=">> -> c >= 0
         [] op = <<"<">> -> c < 0
         [] op = <<"<", "=">> -> c <= 0

RefCompatible(installed, required) ==
    LET inst == RefParts(installed)
        req == RefParts(required)
    IN /\ \A i \in 1..(Len(req) - 1) : RefAt(inst, i) = req[i]
       /\ RefCmp(inst, req) >= 0

\* C9: _version_satisfies(installed, '~=', required) is true iff the leading
\* components of installed equal required without its last component and
\* installed >= required under zero-padded comparison.
C9_CompatibleRelease ==
    (verOut.done /\ verIn.operator = <<"~", "=">>)
        => (verOut.r <=> RefCompatible(verIn.installed, verIn.required))

\* C10: for ==, !=, >, >=, <, <= the result is the zero-padded lexicographic
\* comparison of the two normalised integer sequences; versions that differ
\* only by trailing .0 components are equal, and v == v for every v.
C10_VersionComparison ==
    (verOut.done /\ verIn.operator \in RecognizedOps \ {<<"~", "=">>})
        => /\ verOut.r <=> RefCompare(verIn.installed, verIn.operator, verIn.required)
           /\ (verIn.operator = <<"=", "=">> /\ verIn.installed = verIn.required)
                 => verOut.r
           /\ (verIn.operator = <<"=", "=">>
               /\ verIn.installed = verIn.required \o <<".", "0">>) => verOut.r

C10_Witness ==
    /\ verOut.done
    /\ verIn = [installed |-> <<"2", ".", "0">>, operator |-> <<"=", "=">>,
                required |-> <<"2", ".", "0", ".", "0">>]
    /\ verOut.r

(***************************************************************************)
(* What the specification says of the two extractors.                      *)
(***************************************************************************)
\* C5: for a tar archive whose single top-level directory is R, after the
\* extraction into an empty destination every regular-file member R/p is at
\* <dest>/p with the member's content, and nothing named R is in <dest>.
C5_RootStripped ==
    (fetchOut.done /\ fetchOut.kind = "pypi" /\ fetchOut.idx = "ok"
     /\ fetchOut.dl = "ok")
        => LET ms == pypiIndex[P].links[1].archive.members
           IN /\ \A i \in DOMAIN ms :
                    ms[i].isfile =>
                        /\ IsFileAt(cache[P].tree, Tail(ms[i].name))
                        /\ cache[P].tree[Tail(ms[i].name)].data = ms[i].data
              /\ ms /= <<>> => ms[1].name[1] \notin TopLevel(cache[P].tree)

\* the index of the first member whose name contains data.tar, 0 when none
FirstDataTar(ms) ==
    LET hits == {i \in DOMAIN ms : Contains(ms[i].name, DATA_TAR)}
    IN IF hits = {} THEN 0 ELSE CHOOSE i \in hits : \A j \in hits : i <= j

\* C6: from a well-formed ar container the scan takes exactly the bytes of the
\* first member whose name contains data.tar, whatever precedes it; when there
\* is none the binary install returns false and makes no cache entry.
C6_ArScan ==
    (fetchOut.done /\ fetchOut.kind = "termux")
        => LET ms == termuxRepo[P].members
               first == FirstDataTar(ms)
           IN /\ (fetchOut.dl = "ok" /\ first > 0)
                    => fetchOut.written = Written(ms[first].data)
              /\ first = 0 => (~fetchOut.ok /\ ~cache[P].present)

C6_Witness ==
    /\ fetchOut.done /\ fetchOut.kind = "termux" /\ fetchOut.ok
    /\ LET ms == termuxRepo[P].members
       IN /\ Len(ms) = 3
          /\ FirstDataTar(ms) = 3
          /\ Len(ms[1].data) % 2 = 1
          /\ Len(ms[2].data) % 2 = 0
          /\ ms[2].data = PAYLOAD_P1
          /\ ms[3].data = PAYLOAD_P1_OTHER
    /\ cache[P].present

(***************************************************************************)
(* What the specification says of install().                               *)
(***************************************************************************)
\* C1: a second install of the same requirement for the same project and
\* source, after one that returned true, returns true and makes no network
\* request.
C1_Idempotent ==
    (/\ prev.ended /\ prev.result
     /\ Ended(call)
     /\ call.req = prev.req /\ call.project = prev.project
     /\ call.source = prev.source)
        => (call.result /\ call.net = 0)

\* the requirement's constraint as the specification reads it
RefSatisfies(installed, op, required) ==
    IF op = <<>> THEN TRUE
    ELSE IF op = <<"~", "=">> THEN RefCompatible(installed, required)
    ELSE IF op \in RecognizedOps THEN RefCompare(installed, op, required)
    ELSE FALSE

\* the version the project's site directory provides meets the requirement
SatisfiedInSite(c) ==
    LET m == FindInSite(site[c.project].entries, cache, c.name)
    IN /\ m.found
       /\ RefSatisfies(IF m.ver = <<>> THEN DEFAULT_VERSION ELSE m.ver, c.op, c.ver)

\* every top-level item of the package's cache entry is in the site directory
LinkedInSite(c) ==
    /\ cache[c.name].present
    /\ \A item \in TopLevel(cache[c.name].tree) :
          item \in DOMAIN site[c.project].entries

\* C2: install returns true iff the call ends with the package satisfied and
\* linked in the project's site directory.
C2_TrueIffSatisfiedAndLinked ==
    call.pc \in {"DONE", "FAILED"}
        => (call.result <=> (SatisfiedInSite(call) /\ LinkedInSite(call)))

\* the one source a call that was not short-circuited has to use
ExpectedSource(c) ==
    IF c.source \in {"termux", "pypi"} THEN c.source
    ELSE IF c.probe = "present" THEN "termux" ELSE "pypi"

C4_LinkKeepsExisting ==
    [][(call.pc = "LINKING" /\ call'.pc /= "LINKING")
          => \A pr \in Projects : \A x \in DOMAIN site[pr].entries :
                /\ x \in DOMAIN site'[pr].entries
                /\ site'[pr].entries[x] = site[pr].entries[x]
                /\ Resolve(site'[pr].entries[x], cache')
                      = Resolve(site[pr].entries[x], cache)]_vars

\* a call has linked a package whose cache entry holds a name that the site
\* directory already had from another package
C4_Witness ==
    /\ call.pc = "DONE" /\ call.linked
    /\ \E x \in TopLevel(cache[call.name].tree) :
          /\ x \in DOMAIN site[call.project].entries
          /\ site[call.project].entries[x].pkg /= call.name

(***************************************************************************)
(* What the specification says of is_installed and of the search path.     *)
(***************************************************************************)
\* C11: a call of is_installed leaves sys.path element for element as it was
\* and creates or changes no cache entry, no file of the cache directory and
\* no project site directory.
C11_IsInstalledPure ==
    [][(\E requirement \in ProcReqs, project \in Projects :
           IsInstalled(requirement, project))
          => /\ sysPath' = sysPath
             /\ cache' = cache
             /\ files' = files
             /\ site' = site]_vars

Count(path, e) == Cardinality({i \in DOMAIN path : path[i] = e})
Before(path, a, b) ==
    \A i, j \in DOMAIN path : (path[i] = a /\ path[j] = b) => i < j

C13_PypiShortCircuit ==
    [][(/\ call.pc = "FETCHING" /\ call.chosen = "pypi"
        /\ cache[call.name].present
        /\ call'.pc /= call.pc)
          => /\ call'.pc = "LINKING"
             /\ call'.net = call.net
             /\ cache' = cache
             /\ files' = files]_vars

\* C14: an extractor that returns false for a package that had no cache entry
\* leaves no cache entry for it.
C14_FailedFetchLeavesNoEntry ==
    (fetchOut.done /\ ~fetchOut.ok) => ~cache[P].present

\* the unpacked payload holds no site-packages directory
PayloadNotFound ==
    /\ fetchOut.dl = "ok"
    /\ fetchOut.written.present
    /\ TarOpen(fetchOut.written.data).ok
    /\ SitePackagesIn(TarOpen(fetchOut.written.data).tree) = {}

\* C15: after a binary install that succeeded, or that found no site-packages
\* directory in the payload, the .deb, the data tar and the scratch directory
\* are all gone from the cache directory.
C15_TermuxCleanup ==
    (fetchOut.done /\ fetchOut.kind = "termux" /\ (fetchOut.ok \/ PayloadNotFound))
        => /\ DebFile(P) \notin DOMAIN files
           /\ DataTarFile(P) \notin DOMAIN files
           /\ TempExtract(P) \notin DOMAIN files

(***************************************************************************)
(* What the specification says of the errors of install().                 *)
(***************************************************************************)
\* C16: install ends by returning a boolean for every well-formed
\* requirement; the only exception that leaves it is the one of a malformed
\* requirement, raised before any network or file system effect.
C16_OnlyMalformedRaises ==
    call.pc = "RAISED"
        => /\ ~_parse_requirement(call.req).ok
           /\ call.net = 0
           /\ call.attempts = <<>>

(***************************************************************************)
(* What the specification says of concurrency and of the isolation of      *)
(* projects.                                                               *)
(***************************************************************************)
\* C17: two install calls for the same package are not coordinated: whatever
\* the other call is doing, the cache check sends a call to the link loop as
\* soon as the entry's directory exists and to the download when it does not,
\* and the link loop links what the directory holds at that moment and
\* returns true.
C17_Uncoordinated ==
    [][\A i \in RaceProcs :
          /\ RaceCacheCheck(i)
                => race'.pc[i] = IF cache[P].present THEN "LINKING"
                                 ELSE "DOWNLOADING"
          /\ RaceLink(i)
                => /\ race'.result[i]
                   /\ DOMAIN site'[RaceProject(i)].entries
                         = DOMAIN site[RaceProject(i)].entries
                              \cup TopLevel(cache[P].tree)]_vars

\* both calls passed the cache check with no entry and downloaded; one is in
\* the middle of copytree, the entry's directory made and still empty; the
\* other failed on the scratch directory of the first, was called again,
\* found the entry's directory, linked nothing and returned true
C17_Witness ==
    \E i, j \in RaceProcs :
        /\ i /= j
        /\ race.source[i] = "termux" /\ race.source[j] = "termux"
        /\ race.pc[i] = "COPYING" /\ race.net[i] = 1
        /\ cache[P].present /\ cache[P].tree = EmptyTree
        /\ race.n[j] = 2 /\ race.net[j] = 1
        /\ race.pc[j] = "DONE" /\ race.result[j]
        /\ site[RaceProject(j)].entries = <<>>

\* C18: is_installed(req, P) returns true only if P's own site directory
\* provides the module the requirement names.
C18_ProjectScopedCheck ==
    [][\A requirement \in ProcReqs, project \in Projects :
          (IsInstalled(requirement, project) /\ query'.result)
              => FindInEntry(project, site', cache,
                             _parse_requirement(requirement).name).found]_vars

\* what the site directory of a project resolves to: its entries that exist,
\* each with the content it leads to
SiteView(st, cch, project) ==
    LET live == {n \in DOMAIN st[project].entries :
                    EntryExists(st[project].entries[n], cch)}
    IN [n \in live |-> Resolve(st[project].entries[n], cch)]

\* C19: no step of an install call made for a project changes the entries or
\* the contents that the site directory of another project resolves to, once
\* that directory exposes a package.
C19_CrossProjectIsolation ==
    [][\A other \in Projects :
          (/\ call.pc /= "idle" /\ ~Ended(call)
           /\ call.project /= other
           /\ DOMAIN site[other].entries /= {})
              => SiteView(site', cache', other) = SiteView(site, cache, other)]_vars

\* C20: after install returned true for a requirement whose name holds '_' and
\* whose cache entry has the top-level module of that name, linked in the
\* project's site directory, is_installed of the same requirement and project
\* returns true.
C20_CheckUsesLinkedName ==
    [][(/\ call.pc = "DONE" /\ call.result /\ call.linked
        /\ call.req = REQ_Q_R
        /\ Q_R \in DOMAIN site[call.project].entries
        /\ IsInstalled(call.req, call.project))
          => query'.result]_vars

=============================================================================
